---- MODULE Spec2Model ----
(***************************************************************************)
(* Model of terminal-guru/scripts/session_validator.py: main() validates   *)
(* one recorded terminal session (a directory of five artifact files) and  *)
(* sorts what it finds into three buckets: issues, warnings and info.      *)
(*                                                                         *)
(* Text is modelled by TLA+ strings, character by character: the string    *)
(* operators below do what the Python builtins used by the script do.      *)
(* The transcript is a sequence of bytes (0..255) and its decoded text a   *)
(* sequence of code points.                                                *)
(*                                                                         *)
(* The module also models create_plugin and add_skill_to_plugin of         *)
(* skill-creator/scripts/add_to_marketplace.py, which edit the marketplace *)
(* data (SpecMarket).                                                      *)
(***************************************************************************)
EXTENDS Integers, Sequences, FiniteSets, TLC

VARIABLES
    target,     \* what sys.argv[1] names: "none" (no argument), "file", "dir"
    files,      \* the five artifacts of the session directory
    pc,         \* where main() is
    issues,     \* SessionValidator.issues
    warnings,   \* SessionValidator.warnings
    info,       \* SessionValidator.info
    result,     \* what validate() returned to main()
    stdout,     \* the lines printed so far
    exitCode,   \* the process's exit status, -1 while it runs
    produced,   \* history: what each check appended, and whether it raised
    marketplace_data,   \* add_to_marketplace.py: the loaded marketplace.json
    outcome     \* the last call on the marketplace: what it returned and printed

vars == <<target, files, pc, issues, warnings, info, result, stdout, exitCode, produced,
          marketplace_data, outcome>>

----------------------------------------------------------------------------
(* Python's string builtins.                                               *)

\* p in s
Contains(s, p) ==
    \E i \in 1..(Len(s) - Len(p) + 1) : SubSeq(s, i, i + Len(p) - 1) = p

\* s.find(p, from) with 1-based positions; 0 when p does not occur
Find(s, p, from) ==
    LET hits == {i \in from..(Len(s) - Len(p) + 1) : SubSeq(s, i, i + Len(p) - 1) = p}
    IN  IF hits = {} THEN 0 ELSE CHOOSE i \in hits : \A j \in hits : i <= j

\* s.endswith(p)
EndsWith(s, p) ==
    Len(s) >= Len(p) /\ SubSeq(s, Len(s) - Len(p) + 1, Len(s)) = p

RECURSIVE Split(_, _)
\* s.split(sep): the pieces between the non-overlapping occurrences of sep
Split(s, sep) ==
    LET i == Find(s, sep, 1)
    IN  IF i = 0 THEN <<s>>
        ELSE <<SubSeq(s, 1, i - 1)>> \o Split(SubSeq(s, i + Len(sep), Len(s)), sep)

\* the characters str.strip() and the regex class \s remove or match
Whitespace == {" ", "\t", "\n", "\r", "\f"}

IsSpace(s, i) == SubSeq(s, i, i) \in Whitespace

\* s.strip()
Strip(s) ==
    LET keep == {i \in 1..Len(s) : ~IsSpace(s, i)}
    IN  IF keep = {} THEN ""
        ELSE LET lo == CHOOSE i \in keep : \A j \in keep : i <= j
                 hi == CHOOSE i \in keep : \A j \in keep : i >= j
             IN  SubSeq(s, lo, hi)

RECURSIVE Join(_, _)
\* sep.join(parts)
Join(parts, sep) ==
    IF parts = <<>> THEN ""
    ELSE IF Len(parts) = 1 THEN parts[1]
    ELSE parts[1] \o sep \o Join(Tail(parts), sep)

----------------------------------------------------------------------------
(* What a check hands back to validate(): the findings it appended to each *)
(* bucket, in order, and whether it left by an uncaught exception.         *)

Findings(i, w, n, r) == [issues |-> i, warnings |-> w, info |-> n, raised |-> r]

NoFindings == Findings(<<>>, <<>>, <<>>, FALSE)

\* an exception no check catches: nothing more is appended
Raised == Findings(<<>>, <<>>, <<>>, TRUE)

----------------------------------------------------------------------------
(* check_metadata.  A metadata file is modelled by what open() and         *)
(* json.load() make of it:                                                 *)
(*   absent       metadata.json does not exist                             *)
(*   unreadable   it exists; open() or the text decoding in read() raises  *)
(*   invalid_json json.load raises JSONDecodeError                         *)
(*   not_object   valid JSON whose top level is no object ([], 3, "x")     *)
(*   object       a JSON object; NoKey marks a key it lacks                *)

NoKey == "<no key>"

\* dict.get(key, default)
Get(value, default) == IF value = NoKey THEN default ELSE value

MetaFile(kind, name, description, created, minimal, tmux) ==
    [kind |-> kind, name |-> name, description |-> description,
     created |-> created, minimal_config |-> minimal, tmux_isolated |-> tmux]

check_metadata(f) ==
    IF f.kind = "absent" THEN
        Findings(<<"Missing metadata.json file">>, <<>>, <<>>, FALSE)
    ELSE IF f.kind = "invalid_json" THEN
        Findings(<<"Invalid metadata.json format">>, <<>>, <<>>, FALSE)
    ELSE IF f.kind \in {"unreadable", "not_object"} THEN
        \* OSError / UnicodeDecodeError from open() or read(), AttributeError
        \* from metadata.get: none is a JSONDecodeError
        Raised
    ELSE
        Findings(<<>>, <<>>,
                 <<"Session: " \o Get(f.name, "unknown"),
                   "Description: " \o Get(f.description, "N/A"),
                   "Created: " \o Get(f.created, "unknown")>>
                 \o (IF f.minimal_config THEN <<"Using minimal configuration">> ELSE <<>>)
                 \o (IF f.tmux_isolated THEN <<"Running in isolated tmux session">> ELSE <<>>),
                 FALSE)

----------------------------------------------------------------------------
(* check_environment.  A text artifact is [kind, text] with kind absent,   *)
(* unreadable (open() or read() raises) or text.                           *)

TextFile(kind, text) == [kind |-> kind, text |-> text]

\* 'LANG=' not in env_content or 'UTF-8' not in env_content
LangIssue(c) == ~Contains(c, "LANG=") \/ ~Contains(c, "UTF-8")

\* 'LC_ALL=' not in env_content
\*   or 'UTF-8' not in env_content.split('LC_ALL=')[1].split('\n')[0]
LcAllWarning(c) ==
    \/ ~Contains(c, "LC_ALL=")
    \/ ~Contains(Split(Split(c, "LC_ALL=")[2], "\n")[1], "UTF-8")

\* re.search(r'TERM=(.+)', env_content): the start of the leftmost match, 0
\* when there is none. '.' matches any character but a newline, '+' at least one.
TermMatch(c) ==
    LET hits == {i \in 1..(Len(c) - 5) :
                    /\ SubSeq(c, i, i + 4) = "TERM="
                    /\ SubSeq(c, i + 5, i + 5) # "\n"}
    IN  IF hits = {} THEN 0 ELSE CHOOSE i \in hits : \A j \in hits : i <= j

\* term_match.group(1): greedy, to the end of the line
TermValue(c) ==
    Split(SubSeq(c, TermMatch(c) + 5, Len(c)), "\n")[1]

LangMsg == "LANG not set to UTF-8 locale"
LcAllMsg == "LC_ALL not set to UTF-8 locale"
TermUnsetMsg == "TERM variable not set"
TermWarnMsg(v) == "TERM=" \o v \o " - consider using 256color variant"

\* the missing file reported in the wrong bucket
MissingEnvironmentAsIssue ==
    Findings(<<"Missing environment.txt file">>, <<>>, <<>>, FALSE)

\* not env_file.exists()
MissingEnvironment ==
    Findings(<<>>, <<"Missing environment.txt file">>, <<>>, FALSE)

check_environment(f) ==
    IF f.kind = "absent" THEN
        MissingEnvironment
    ELSE IF f.kind = "unreadable" THEN
        Raised
    ELSE
        LET c == f.text
        IN  Findings(
              (IF LangIssue(c) THEN <<LangMsg>> ELSE <<>>)
              \o (IF TermMatch(c) = 0 THEN <<TermUnsetMsg>> ELSE <<>>),
              (IF LcAllWarning(c) THEN <<LcAllMsg>> ELSE <<>>)
              \o (IF TermMatch(c) # 0 /\ ~Contains(TermValue(c), "256color")
                  THEN <<TermWarnMsg(TermValue(c))>> ELSE <<>>),
              <<>>, FALSE)

----------------------------------------------------------------------------
(* check_locale *)

\* the test of line 104
NonUtf8Line(line) ==
    /\ Contains(line, "=")
    /\ ~Contains(line, "UTF-8")
    /\ Strip(line) # ""
    /\ ~EndsWith(line, "=")

RECURSIVE NonUtf8Names(_)
\* the loop of lines 103-106: var_name = line.split('=')[0] of each such line
NonUtf8Names(lines) ==
    IF lines = <<>> THEN <<>>
    ELSE (IF NonUtf8Line(Head(lines)) THEN <<Split(Head(lines), "=")[1]>> ELSE <<>>)
         \o NonUtf8Names(Tail(lines))

LocaleMsg(names) == "Non-UTF-8 locale variables: " \o Join(names, ", ")

check_locale(f) ==
    IF f.kind = "absent" THEN
        Findings(<<>>, <<"Missing locale.txt file">>, <<>>, FALSE)
    ELSE IF f.kind = "unreadable" THEN
        Raised
    ELSE
        LET non_utf8 == NonUtf8Names(Split(Strip(f.text), "\n"))
        IN  Findings(<<>>,
                     IF non_utf8 # <<>> THEN <<LocaleMsg(non_utf8)>> ELSE <<>>,
                     <<>>, FALSE)

----------------------------------------------------------------------------
(* check_typescript_issues.  The transcript is [kind, bytes] with kind     *)
(* absent, unreadable (open() or read() raises) or bytes.                  *)

BytesFile(kind, bytes) == [kind |-> kind, bytes |-> bytes]

REPLACEMENT == 65533    \* U+FFFD

InRange(b, lo, hi) == lo <= b /\ b <= hi

\* whether byte i + k of bs exists and is a continuation byte in lo..hi
Cont(bs, i, k, lo, hi) == i + k <= Len(bs) /\ InRange(bs[i + k], lo, hi)

\* bytes.decode('utf-8') at position i: <<bytes consumed, code point>>, the code
\* point -1 for an invalid or truncated sequence (its maximal subpart is consumed)
DecodeAt(bs, i) ==
    LET b == bs[i]
        lo2 == IF b = 224 THEN 160 ELSE IF b = 240 THEN 144 ELSE 128
        hi2 == IF b = 237 THEN 159 ELSE IF b = 244 THEN 143 ELSE 191
    IN  IF b < 128 THEN <<1, b>>
        ELSE IF InRange(b, 194, 223) THEN
            IF Cont(bs, i, 1, 128, 191)
            THEN <<2, (b - 192) * 64 + (bs[i + 1] - 128)>>
            ELSE <<1, -1>>
        ELSE IF InRange(b, 224, 239) THEN
            IF ~Cont(bs, i, 1, lo2, hi2) THEN <<1, -1>>
            ELSE IF ~Cont(bs, i, 2, 128, 191) THEN <<2, -1>>
            ELSE <<3, (b - 224) * 4096 + (bs[i + 1] - 128) * 64 + (bs[i + 2] - 128)>>
        ELSE IF InRange(b, 240, 244) THEN
            IF ~Cont(bs, i, 1, lo2, hi2) THEN <<1, -1>>
            ELSE IF ~Cont(bs, i, 2, 128, 191) THEN <<2, -1>>
            ELSE IF ~Cont(bs, i, 3, 128, 191) THEN <<3, -1>>
            ELSE <<4, (b - 240) * 262144 + (bs[i + 1] - 128) * 4096
                      + (bs[i + 2] - 128) * 64 + (bs[i + 3] - 128)>>
        ELSE <<1, -1>>

RECURSIVE DecodeFrom(_, _)
\* content.decode('utf-8', errors='replace') from position i on
DecodeFrom(bs, i) ==
    IF i > Len(bs) THEN <<>>
    ELSE LET d == DecodeAt(bs, i)
         IN  <<IF d[2] = -1 THEN REPLACEMENT ELSE d[2]>> \o DecodeFrom(bs, i + d[1])

DecodeReplace(bs) == DecodeFrom(bs, 1)

RECURSIVE FirstErrorFrom(_, _)
\* e.start of the UnicodeDecodeError of content.decode('utf-8'), a 0-based
\* offset; -1 when the bytes decode
FirstErrorFrom(bs, i) ==
    IF i > Len(bs) THEN -1
    ELSE LET d == DecodeAt(bs, i)
         IN  IF d[2] = -1 THEN i - 1 ELSE FirstErrorFrom(bs, i + d[1])

\* an offset counted from 1 instead of from 0
DecodeErrorStartOneBased(bs) ==
    IF FirstErrorFrom(bs, 1) = -1 THEN -1 ELSE FirstErrorFrom(bs, 1) + 1

DecodeErrorStart(bs) == FirstErrorFrom(bs, 1)

\* text.count(c)
Count(text, c) == Cardinality({i \in 1..Len(text) : text[i] = c})

\* len(pattern.findall(text)) for a pattern [class]+, hits being the positions
\* of text that hold a character of the class: the maximal runs
Runs(hits) == Cardinality({i \in hits : (i - 1) \notin hits})

ESC == 27
AltScreenEnter == <<ESC, 91, 63, 49, 48, 52, 57, 104>>   \* ESC [ ? 1 0 4 9 h
\* the sequence ending in "L"
AltScreenExitUpperCase == <<ESC, 91, 63, 49, 48, 52, 57, 76>>

AltScreenExit == <<ESC, 91, 63, 49, 48, 52, 57, 108>>    \* ESC [ ? 1 0 4 9 l

\* the character class of line 141
BoxChars ==
    {9484, 9488, 9492, 9496, 9500, 9508, 9516, 9524, 9532, 9472, 9474,
     9556, 9559, 9562, 9565, 9568, 9571, 9574, 9577, 9580, 9552, 9553}

IsBox(cp) == cp \in BoxChars

\* the character class of lines 147-154
IsEmoji(cp) ==
    \/ InRange(cp, 128512, 128591)   \* 1F600-1F64F
    \/ InRange(cp, 127744, 128511)   \* 1F300-1F5FF
    \/ InRange(cp, 128640, 128767)   \* 1F680-1F6FF
    \/ InRange(cp, 127456, 127487)   \* 1F1E0-1F1FF
    \/ InRange(cp, 9986, 10160)      \* 2702-27B0
    \/ InRange(cp, 9410, 127569)     \* 24C2-1F251

\* the character class of line 162
IsCJK(cp) ==
    \/ InRange(cp, 19968, 40959)     \* 4E00-9FFF
    \/ InRange(cp, 12352, 12447)     \* 3040-309F
    \/ InRange(cp, 12448, 12543)     \* 30A0-30FF
    \/ InRange(cp, 44032, 55215)     \* AC00-D7AF

BackspaceThreshold == 10

MissingTranscriptMsg == "Missing typescript file - session may not have been recorded"
DecodeErrorMsg(start) == "UTF-8 decode error in typescript at position " \o ToString(start)
ReplacementMsg(n) ==
    "Found " \o ToString(n) \o " replacement characters (U+FFFD) - encoding issue"
AltScreenMsg == "Alternate screen buffer used (normal for TUI apps)"
BoxMsg(n) == "Found " \o ToString(n) \o " box drawing characters"
EmojiMsg(n) == "Found " \o ToString(n) \o " emoji sequences"
CJKMsg(n) == "Found " \o ToString(n) \o " CJK character sequences"
BackspaceMsg(n) == "Found " \o ToString(n) \o " backspace characters"
\* str(e) of the OSError that open() or read() raised
AnalyzeErrorMsg == "Error analyzing typescript: [Errno 21] Is a directory"

check_typescript_issues(f) ==
    IF f.kind = "absent" THEN
        Findings(<<MissingTranscriptMsg>>, <<>>, <<>>, FALSE)
    ELSE IF f.kind = "unreadable" THEN
        \* except Exception as e
        Findings(<<>>, <<AnalyzeErrorMsg>>, <<>>, FALSE)
    ELSE
        LET content == f.bytes
            start == DecodeErrorStart(content)
            text == DecodeReplace(content)
            replacement_count == Count(text, REPLACEMENT)
            box_chars == Cardinality({i \in 1..Len(text) : IsBox(text[i])})
            emoji_matches == Runs({i \in 1..Len(text) : IsEmoji(text[i])})
            cjk_matches == Runs({i \in 1..Len(text) : IsCJK(text[i])})
            backspace_count == Count(text, 8) + Count(text, 127)
        IN  Findings(
              (IF start # -1 THEN <<DecodeErrorMsg(start)>> ELSE <<>>)
              \o (IF replacement_count > 0 THEN <<ReplacementMsg(replacement_count)>> ELSE <<>>),
              <<>>,
              (IF Contains(text, AltScreenEnter) \/ Contains(text, AltScreenExit)
               THEN <<AltScreenMsg>> ELSE <<>>)
              \o (IF box_chars > 0 THEN <<BoxMsg(box_chars)>> ELSE <<>>)
              \o (IF emoji_matches > 0 THEN <<EmojiMsg(emoji_matches)>> ELSE <<>>)
              \o (IF cjk_matches > 0 THEN <<CJKMsg(cjk_matches)>> ELSE <<>>)
              \o (IF backspace_count > BackspaceThreshold
                  THEN <<BackspaceMsg(backspace_count)>> ELSE <<>>),
              FALSE)

----------------------------------------------------------------------------
(* check_diagnostics *)

Digits == {"0", "1", "2", "3", "4", "5", "6", "7", "8", "9"}

IsDigit(s, i) == i <= Len(s) /\ SubSeq(s, i, i) \in Digits

\* the first position after p that holds no whitespace (Len(s) + 1 at the end)
SkipSpace(s, p) ==
    LET stops == {q \in (p + 1)..(Len(s) + 1) : q = Len(s) + 1 \/ ~IsSpace(s, q)}
    IN  CHOOSE q \in stops : \A r \in stops : q <= r

\* r'colors\s+.*:\s*(\d+)' matched at start i with \s+ taking k characters: the
\* positions of the ':' the rest of the pattern can match at
ColonSet(s, i, k) ==
    {p \in (i + 6 + k)..Len(s) :
        /\ SubSeq(s, p, p) = ":"
        /\ \A j \in (i + 6 + k)..(p - 1) : SubSeq(s, j, j) # "\n"
        /\ IsDigit(s, SkipSpace(s, p))}

\* the lengths \s+ can take at start i
SpaceSet(s, i) ==
    {k \in 1..(Len(s) - i - 5) : \A j \in 1..k : IsSpace(s, i + 5 + j)}

\* the starts at which the pattern matches
ColorStarts(s) ==
    {i \in 1..(Len(s) - 5) :
        /\ SubSeq(s, i, i + 5) = "colors"
        /\ \E k \in SpaceSet(s, i) : ColonSet(s, i, k) # {}}

Max(S) == CHOOSE x \in S : \A y \in S : x >= y
Min(S) == CHOOSE x \in S : \A y \in S : x <= y

\* where group(1) of the match re.search returns starts: the leftmost start,
\* the longest \s+ and then the longest .* that let the rest match
ColorGroupStart(s) ==
    LET i == Min(ColorStarts(s))
        k == Max({n \in SpaceSet(s, i) : ColonSet(s, i, n) # {}})
    IN  SkipSpace(s, Max(ColonSet(s, i, k)))

RECURSIVE DigitRun(_, _)
\* (\d+) from position q: the digits, greedily
DigitRun(s, q) ==
    IF IsDigit(s, q) THEN SubSeq(s, q, q) \o DigitRun(s, q + 1) ELSE ""

DigitValue(d) == CHOOSE n \in 0..9 : ToString(n) = d

RECURSIVE ParseInt(_)
\* int(digits)
ParseInt(d) ==
    IF d = "" THEN 0
    ELSE ParseInt(SubSeq(d, 1, Len(d) - 1)) * 10 + DigitValue(SubSeq(d, Len(d), Len(d)))

MinColors == 256

ColorMsg(colors) ==
    "Terminal only supports " \o ToString(colors) \o " colors (recommend 256+)"

check_diagnostics(f) ==
    IF f.kind = "absent" THEN
        Findings(<<>>, <<>>, <<"No diagnostics file available">>, FALSE)
    ELSE IF f.kind = "unreadable" THEN
        Raised
    ELSE
        LET c == f.text
            colors == ParseInt(DigitRun(c, ColorGroupStart(c)))
        IN  Findings(
              (IF Contains(c, "UTF-8 in environment: No")
               THEN <<"Diagnostics show UTF-8 not in environment">> ELSE <<>>)
              \o (IF Contains(c, "Terminfo entry exists: No")
                  THEN <<"Terminal type not found in terminfo database">> ELSE <<>>),
              IF ColorStarts(c) # {} /\ colors < MinColors
              THEN <<ColorMsg(colors)>> ELSE <<>>,
              <<>>, FALSE)

----------------------------------------------------------------------------
(* main(), SessionValidator.validate() and print_report()                  *)

Checks == {"metadata", "environment", "locale", "typescript", "diagnostics"}

\* Path(session_dir).name
SessionName == "session"

NotRun == [ran |-> FALSE, found |-> NoFindings]

\* result before validate() has returned
NoResult == [returned |-> FALSE, session |-> "", issues |-> <<>>, warnings |-> <<>>, info |-> <<>>]

\* an exit status that counts the warnings too
ExitStatusCountingWarnings(report) ==
    IF report.issues # <<>> \/ report.warnings # <<>> THEN 1 ELSE 0

\* sys.exit(1 if result['issues'] else 0)
ExitStatus(report) == IF report.issues # <<>> THEN 1 ELSE 0

\* a check whose findings go to the front of the buckets
RunCheckPrepending(name, found, next) ==
    /\ issues' = found.issues \o issues
    /\ warnings' = found.warnings \o warnings
    /\ info' = found.info \o info
    /\ produced' = [produced EXCEPT ![name] = [ran |-> TRUE, found |-> found]]
    /\ IF found.raised
       THEN pc' = "done" /\ exitCode' = 1
       ELSE pc' = next /\ UNCHANGED exitCode
    /\ UNCHANGED <<target, files, result, stdout, marketplace_data, outcome>>

\* one check of validate(): what it found is appended to the buckets; an uncaught
\* exception leaves validate() and main(), and the interpreter exits with status 1
RunCheck(name, found, next) ==
    /\ issues' = issues \o found.issues
    /\ warnings' = warnings \o found.warnings
    /\ info' = info \o found.info
    /\ produced' = [produced EXCEPT ![name] = [ran |-> TRUE, found |-> found]]
    /\ IF found.raised
       THEN pc' = "done" /\ exitCode' = 1
       ELSE pc' = next /\ UNCHANGED exitCode
    /\ UNCHANGED <<target, files, result, stdout, marketplace_data, outcome>>

\* len(sys.argv) < 2
MainUsage ==
    /\ pc = "main" /\ target = "none"
    /\ stdout' = stdout \o <<"Usage: session_validator.py <session_directory>", "",
                             "Validates a recorded terminal session and identifies issues">>
    /\ exitCode' = 1
    /\ pc' = "done"
    /\ UNCHANGED <<target, files, issues, warnings, info, result, produced, marketplace_data, outcome>>

\* not os.path.isdir(session_dir)
MainNotDirectory ==
    /\ pc = "main" /\ target = "file"
    /\ stdout' = stdout \o <<"Error: '" \o SessionName \o "' is not a directory">>
    /\ exitCode' = 1
    /\ pc' = "done"
    /\ UNCHANGED <<target, files, issues, warnings, info, result, produced, marketplace_data, outcome>>

\* validator = SessionValidator(session_dir)
MainConstruct ==
    /\ pc = "main" /\ target = "dir"
    /\ issues' = <<>> /\ warnings' = <<>> /\ info' = <<>>
    /\ pc' = "validate"
    /\ UNCHANGED <<target, files, result, stdout, exitCode, produced, marketplace_data, outcome>>

\* validate(), up to the first check
ValidateBegin ==
    /\ pc = "validate"
    /\ stdout' = stdout \o <<"Validating session: " \o SessionName,
                             "============================================================">>
    /\ pc' = "check_metadata"
    /\ UNCHANGED <<target, files, issues, warnings, info, result, exitCode, produced, marketplace_data, outcome>>

CheckMetadata ==
    /\ pc = "check_metadata"
    /\ RunCheck("metadata", check_metadata(files.metadata), "check_environment")

CheckEnvironment ==
    /\ pc = "check_environment"
    /\ RunCheck("environment", check_environment(files.environment), "check_locale")

CheckLocale ==
    /\ pc = "check_locale"
    /\ RunCheck("locale", check_locale(files.locale), "check_typescript_issues")

CheckTypescriptIssues ==
    /\ pc = "check_typescript_issues"
    /\ RunCheck("typescript", check_typescript_issues(files.typescript), "check_diagnostics")

CheckDiagnostics ==
    /\ pc = "check_diagnostics"
    /\ RunCheck("diagnostics", check_diagnostics(files.diagnostics), "return")

\* the return of validate(): the report holds the validator's own lists
ValidateReturn ==
    /\ pc = "return"
    /\ result' = [returned |-> TRUE, session |-> SessionName,
                  issues |-> issues, warnings |-> warnings, info |-> info]
    /\ pc' = "print_report"
    /\ UNCHANGED <<target, files, issues, warnings, info, stdout, exitCode, produced, marketplace_data, outcome>>

RECURSIVE Prefixed(_, _)
\* the loop printing one bucket: each item behind the bucket's mark
Prefixed(mark, items) ==
    IF items = <<>> THEN <<>>
    ELSE <<"   " \o mark \o "  " \o Head(items)>> \o Prefixed(mark, Tail(items))

\* a report that begins with the issues and ends with the information
ReportLinesIssuesFirst(iss, warn, inf) ==
    <<"">>
    \o (IF iss # <<>> THEN <<"Issues:">> \o Prefixed("x", iss) ELSE <<>>)
    \o (IF warn # <<>> THEN <<"Warnings:">> \o Prefixed("!", warn) ELSE <<>>)
    \o (IF inf # <<>> THEN <<"Information:">> \o Prefixed("i", inf) ELSE <<>>)
    \o <<"">>
    \o (IF iss = <<>> THEN <<"No critical issues found!">>
        ELSE <<"Found " \o ToString(Len(iss)) \o " issue(s) that need attention">>)
    \o (IF warn # <<>> THEN <<"Found " \o ToString(Len(warn)) \o " warning(s)">> ELSE <<>>)
    \o <<"">>

\* what print_report() prints
ReportLines(iss, warn, inf) ==
    <<"">>
    \o (IF inf # <<>> THEN <<"Information:">> \o Prefixed("i", inf) ELSE <<>>)
    \o (IF warn # <<>> THEN <<"Warnings:">> \o Prefixed("!", warn) ELSE <<>>)
    \o (IF iss # <<>> THEN <<"Issues:">> \o Prefixed("x", iss) ELSE <<>>)
    \o <<"">>
    \o (IF iss = <<>> THEN <<"No critical issues found!">>
        ELSE <<"Found " \o ToString(Len(iss)) \o " issue(s) that need attention">>)
    \o (IF warn # <<>> THEN <<"Found " \o ToString(Len(warn)) \o " warning(s)">> ELSE <<>>)
    \o <<"">>

PrintReport ==
    /\ pc = "print_report"
    /\ stdout' = stdout \o ReportLines(issues, warnings, info)
    /\ pc' = "exit"
    /\ UNCHANGED <<target, files, issues, warnings, info, result, exitCode, produced, marketplace_data, outcome>>

MainExit ==
    /\ pc = "exit"
    /\ exitCode' = ExitStatus(result)
    /\ pc' = "done"
    /\ UNCHANGED <<target, files, issues, warnings, info, result, stdout, produced, marketplace_data, outcome>>

Next ==
    \/ MainUsage
    \/ MainNotDirectory
    \/ MainConstruct
    \/ ValidateBegin
    \/ CheckMetadata
    \/ CheckEnvironment
    \/ CheckLocale
    \/ CheckTypescriptIssues
    \/ CheckDiagnostics
    \/ ValidateReturn
    \/ PrintReport
    \/ MainExit

----------------------------------------------------------------------------
(* add_to_marketplace.py: create_plugin and add_skill_to_plugin.  The      *)
(* marketplace data is the dictionary load_marketplace returns; a plugin   *)
(* is a record, and every plugin made by create_plugin has a skills list.  *)
(* Each function is an operator from the data and the arguments to the     *)
(* data afterwards, the value returned and the lines printed (without the  *)
(* mark each line begins with).                                            *)

\* what load_marketplace returns when there is no marketplace.json
EmptyMarketplace ==
    [name |-> "", owner |-> [name |-> "", email |-> ""],
     metadata |-> [description |-> "", version |-> "1.0.0"], plugins |-> <<>>]

\* no call yet
NoCall == [called |-> FALSE, value |-> FALSE, printed |-> <<>>]

\* path.strip('./'): the characters '.' and '/' are removed from both ends
StripDotSlash(path) ==
    LET keep == {i \in 1..Len(path) : SubSeq(path, i, i) \notin {".", "/"}}
    IN  IF keep = {} THEN "" ELSE SubSeq(path, Min(keep), Max(keep))

\* f"./{path.strip('./')}"
NormalizePath(path) == "./" \o StripDotSlash(path)

\* the index of the first plugin of that name, 0 for None
find_plugin(data, plugin_name) ==
    LET hits == {i \in 1..Len(data.plugins) : data.plugins[i].name = plugin_name}
    IN  IF hits = {} THEN 0 ELSE Min(hits)

Called(data, value, printed) == [data |-> data, value |-> value, printed |-> printed]

add_skill_to_plugin(data, plugin_name, skill_path) ==
    LET i == find_plugin(data, plugin_name)
        normalized == NormalizePath(skill_path)
    IN  IF i = 0 THEN
            Called(data, FALSE, <<"Plugin '" \o plugin_name \o "' not found in marketplace">>)
        ELSE IF \E k \in 1..Len(data.plugins[i].skills) : data.plugins[i].skills[k] = normalized THEN
            Called(data, FALSE,
                   <<"Skill '" \o normalized \o "' already exists in plugin '"
                     \o plugin_name \o "'">>)
        ELSE
            Called([data EXCEPT !.plugins[i].skills = Append(@, normalized)], TRUE,
                   <<"Added skill '" \o normalized \o "' to plugin '" \o plugin_name \o "'">>)

create_plugin(data, plugin_name, plugin_description, skill_paths) ==
    IF find_plugin(data, plugin_name) # 0 THEN
        Called(data, FALSE, <<"Plugin '" \o plugin_name \o "' already exists">>)
    ELSE
        LET normalized_skills ==
                [k \in 1..Len(skill_paths) |-> NormalizePath(skill_paths[k])]
            new_plugin ==
                [name |-> plugin_name, description |-> plugin_description,
                 source |-> "./", strict |-> FALSE, skills |-> normalized_skills]
        IN  Called([data EXCEPT !.plugins = Append(@, new_plugin)], TRUE,
                   <<"Created new plugin: " \o plugin_name,
                     "   Added " \o ToString(Len(normalized_skills)) \o " skill(s)">>)

----------------------------------------------------------------------------
(* The sessions main() is run on.                                          *)

AbsentMeta == MetaFile("absent", NoKey, NoKey, NoKey, FALSE, FALSE)
AbsentText == TextFile("absent", "")
AbsentBytes == BytesFile("absent", <<>>)

EmptySession ==
    [metadata |-> AbsentMeta, environment |-> AbsentText, locale |-> AbsentText,
     typescript |-> AbsentBytes, diagnostics |-> AbsentText]

MetadataSamples ==
    {AbsentMeta,
     MetaFile("unreadable", NoKey, NoKey, NoKey, FALSE, FALSE),
     MetaFile("invalid_json", NoKey, NoKey, NoKey, FALSE, FALSE),
     MetaFile("not_object", NoKey, NoKey, NoKey, FALSE, FALSE),
     MetaFile("object", NoKey, NoKey, NoKey, FALSE, FALSE),
     MetaFile("object", "demo", "a test", "2024-01-01", TRUE, TRUE)}

EnvironmentSamples ==
    {AbsentText,
     TextFile("unreadable", ""),
     TextFile("text", "LANG=en_US.UTF-8\nLC_ALL=en_US.UTF-8\nTERM=xterm-256color\n"),
     TextFile("text", "LANG=C\nTERM=xterm\n"),
     TextFile("text", "SHELL=/bin/zsh\n")}

LocaleSamples ==
    {AbsentText,
     TextFile("unreadable", ""),
     TextFile("text", "LANG=\"en_US.UTF-8\"\nLC_CTYPE=\"en_US.UTF-8\"\nLC_ALL=\n"),
     TextFile("text", "LANG=C\nLC_CTYPE=\"POSIX\"\nLC_ALL=\n")}

TypescriptSamples ==
    {AbsentBytes,
     BytesFile("unreadable", <<>>),
     BytesFile("bytes", <<36, 32, 108, 115, 10>>),                      \* "$ ls\n"
     BytesFile("bytes", <<104, 105, 255, 10>>),                         \* "hi", 0xFF
     BytesFile("bytes", AltScreenEnter \o <<226, 148, 140>> \o AltScreenExit),  \* U+250C
     BytesFile("bytes", <<240, 159, 152, 128, 32, 230, 151, 165>>)}     \* U+1F600, U+65E5

DiagnosticsSamples ==
    {AbsentText,
     TextFile("unreadable", ""),
     TextFile("text", "Terminfo entry exists: Yes\n  colors     (Number of colors): 256\nUTF-8 in environment: Yes\n"),
     TextFile("text", "Terminfo entry exists: No\n  colors     (Number of colors): 8\nUTF-8 in environment: No\n")}

Sessions ==
    {[metadata |-> m, environment |-> e, locale |-> l, typescript |-> t, diagnostics |-> d] :
        m \in MetadataSamples, e \in EnvironmentSamples, l \in LocaleSamples,
        t \in TypescriptSamples, d \in DiagnosticsSamples}

\* the process as it starts: nothing printed, no validator yet
Start(tgt, session) ==
    /\ target = tgt
    /\ files = session
    /\ pc = "main"
    /\ issues = <<>> /\ warnings = <<>> /\ info = <<>>
    /\ result = NoResult
    /\ stdout = <<>>
    /\ exitCode = -1
    /\ produced = [c \in Checks |-> NotRun]
    /\ marketplace_data = EmptyMarketplace
    /\ outcome = NoCall

Init ==
    \/ \E tgt \in {"none", "file"} : Start(tgt, EmptySession)
    \/ \E session \in Sessions : Start("dir", session)

Spec == Init /\ [][Next]_vars

----------------------------------------------------------------------------
(* Sessions that vary one text artifact line by line: SpecEnv the          *)
(* environment dump, SpecLocale the locale dump.                           *)

MaxEnvLines == 4
MaxLocaleLines == 3

\* the sequences of at most n elements of S
SeqsUpTo(S, n) == UNION {[1..k -> S] : k \in 0..n}

\* the name before the first '=' of a line
KeyOf(line) == Split(line, "=")[1]

\* no name is set twice
DistinctKeys(lines) ==
    \A i, j \in 1..Len(lines) : i # j => KeyOf(lines[i]) # KeyOf(lines[j])

RECURSIVE Unlines(_)
\* the file holding these lines, each ended by a newline
Unlines(lines) ==
    IF lines = <<>> THEN "" ELSE Head(lines) \o "\n" \o Unlines(Tail(lines))

EnvLineSamples ==
    {"LANG=en_US.UTF-8", "LANG=C",
     "LC_ALL=en_US.UTF-8", "LC_ALL=C",
     "TERM=xterm-256color", "TERM=xterm", "TERM=",
     "COLORTERM=truecolor",
     "LC_CTYPE=en_US.UTF-8"}

EnvTexts ==
    {Unlines(ls) : ls \in {l \in SeqsUpTo(EnvLineSamples, MaxEnvLines) : DistinctKeys(l)}}

EnvSessions ==
    {[EmptySession EXCEPT !.metadata = MetaFile("object", NoKey, NoKey, NoKey, FALSE, FALSE),
                          !.environment = e] :
        e \in {AbsentText, TextFile("unreadable", "")} \cup {TextFile("text", t) : t \in EnvTexts}}

InitEnv ==
    \/ \E tgt \in {"none", "file"} : Start(tgt, EmptySession)
    \/ \E session \in EnvSessions : Start("dir", session)

SpecEnv == InitEnv /\ [][Next]_vars

LocaleLineSamples ==
    {"LANG=en_US.UTF-8", "LANG=C",
     "LC_CTYPE=\"POSIX\"", "LC_CTYPE=\"en_US.UTF-8\"",
     "LC_ALL=", "LC_X=a=",
     "locale: Cannot set LC_ALL to default locale",
     ""}

LocaleTexts ==
    {Unlines(ls) : ls \in SeqsUpTo(LocaleLineSamples, MaxLocaleLines)}

LocaleSessions ==
    {[EmptySession EXCEPT !.metadata = MetaFile("object", NoKey, NoKey, NoKey, FALSE, FALSE),
                          !.locale = l] :
        l \in {AbsentText, TextFile("unreadable", "")} \cup {TextFile("text", t) : t \in LocaleTexts}}

InitLocale ==
    \/ \E tgt \in {"none", "file"} : Start(tgt, EmptySession)
    \/ \E session \in LocaleSessions : Start("dir", session)

SpecLocale == InitLocale /\ [][Next]_vars

----------------------------------------------------------------------------
(* Sessions that vary the transcript: SpecTranscript builds it from at     *)
(* most MaxChunks byte chunks, whole characters and pieces of characters.  *)

MaxChunks == 3

RECURSIVE Flatten(_)
\* the chunks one after the other
Flatten(chunks) ==
    IF chunks = <<>> THEN <<>> ELSE Head(chunks) \o Flatten(Tail(chunks))

ChunkSamples ==
    {<<65>>,                     \* "A"
     <<255>>,                    \* never valid
     <<195>>, <<169>>,           \* together U+00E9
     <<226, 148>>, <<140>>,      \* together U+250C, a box-drawing glyph
     <<240, 159, 152, 128>>,     \* U+1F600
     <<230, 151, 165>>,          \* U+65E5
     <<239, 191, 189>>,          \* U+FFFD, encoded
     AltScreenEnter, AltScreenExit}

TranscriptSessions ==
    {[EmptySession EXCEPT !.metadata = MetaFile("object", NoKey, NoKey, NoKey, FALSE, FALSE),
                          !.typescript = t] :
        t \in {AbsentBytes, BytesFile("unreadable", <<>>)}
               \cup {BytesFile("bytes", Flatten(cs)) : cs \in SeqsUpTo(ChunkSamples, MaxChunks)}}

InitTranscript ==
    \/ \E tgt \in {"none", "file"} : Start(tgt, EmptySession)
    \/ \E session \in TranscriptSessions : Start("dir", session)

SpecTranscript == InitTranscript /\ [][Next]_vars

----------------------------------------------------------------------------
(* Sessions that vary the diagnostics report line by line: SpecDiag.  Each *)
(* sample is a line with the color count it reports, NoCount for none.     *)

MaxDiagLines == 3

NoCount == -1

DiagLine(line, colors) == [line |-> line, colors |-> colors]

DiagLineSamples ==
    {DiagLine("  colors     (Number of colors               ): 8", 8),
     DiagLine("  colors     (Number of colors               ): 256", 256),
     DiagLine("colors      : 16", 16),
     DiagLine("  lines      (Terminal lines                ): 24", NoCount),
     DiagLine("TERM type: xterm-256color", NoCount),
     DiagLine("Terminfo entry exists: No", NoCount),
     DiagLine("UTF-8 in environment: Yes", NoCount),
     DiagLine("Testing terminal colors", NoCount)}

DiagTexts ==
    {Unlines(ls) : ls \in SeqsUpTo({d.line : d \in DiagLineSamples}, MaxDiagLines)}

DiagSessions ==
    {[EmptySession EXCEPT !.metadata = MetaFile("object", NoKey, NoKey, NoKey, FALSE, FALSE),
                          !.typescript = BytesFile("bytes", <<36, 32, 108, 115, 10>>),
                          !.diagnostics = d] :
        d \in {AbsentText, TextFile("unreadable", "")} \cup {TextFile("text", t) : t \in DiagTexts}}

InitDiag ==
    \/ \E tgt \in {"none", "file"} : Start(tgt, EmptySession)
    \/ \E session \in DiagSessions : Start("dir", session)

SpecDiag == InitDiag /\ [][Next]_vars

----------------------------------------------------------------------------
(* A caller that imports the module, constructs one SessionValidator and   *)
(* calls validate() on it up to MaxCalls times before it prints the report *)
(* and exits as main() does: SpecReuse.  result is the report as the last  *)
(* validate() returned it.                                                 *)

MaxCalls == 2

\* the calls of validate() so far, each of which printed the header
CallsMade ==
    Cardinality({i \in 1..Len(stdout) : stdout[i] = "Validating session: " \o SessionName})

\* validator = SessionValidator(session_dir), by the importing caller
CallerConstruct ==
    /\ pc = "main" /\ target = "import"
    /\ issues' = <<>> /\ warnings' = <<>> /\ info' = <<>>
    /\ pc' = "validate"
    /\ UNCHANGED <<target, files, result, stdout, exitCode, produced, marketplace_data, outcome>>

\* validator.validate() once more, on the same object: __init__ is not run
\* again and validate() does not reset the lists
CallerValidateAgain ==
    /\ pc = "print_report" /\ target = "import"
    /\ CallsMade < MaxCalls
    /\ pc' = "validate"
    /\ UNCHANGED <<target, files, issues, warnings, info, result, stdout, exitCode, produced,
                   marketplace_data, outcome>>

NextReuse ==
    \/ Next
    \/ CallerConstruct
    \/ CallerValidateAgain

InitReuse ==
    \/ \E tgt \in {"none", "file"} : Start(tgt, EmptySession)
    \/ \E session \in Sessions : Start("dir", session)
    \/ \E session \in Sessions : Start("import", session)

SpecReuse == InitReuse /\ [][NextReuse]_vars

----------------------------------------------------------------------------
(* Calls of create_plugin and add_skill_to_plugin, in any order, on a      *)
(* marketplace that starts with no plugins: SpecMarket.  The validator is  *)
(* not run.                                                                *)

MaxSkillPaths == 2

PluginNames == {"dev-tools", "writing"}

SkillPathSamples == {"skill-creator", "./skill-creator", "skill-creator/", "terminal-guru"}

\* the validator's variables
validator == <<target, files, pc, issues, warnings, info, result, stdout, exitCode, produced>>

CreatePlugin ==
    /\ target = "marketplace"
    /\ \E plugin_name \in PluginNames, skill_paths \in SeqsUpTo(SkillPathSamples, MaxSkillPaths) :
          LET r == create_plugin(marketplace_data, plugin_name, "A plugin", skill_paths)
          IN  /\ marketplace_data' = r.data
              /\ outcome' = [called |-> TRUE, value |-> r.value, printed |-> r.printed]
    /\ UNCHANGED validator

AddSkillToPlugin ==
    /\ target = "marketplace"
    /\ \E plugin_name \in PluginNames, skill_path \in SkillPathSamples :
          LET r == add_skill_to_plugin(marketplace_data, plugin_name, skill_path)
          IN  /\ marketplace_data' = r.data
              /\ outcome' = [called |-> TRUE, value |-> r.value, printed |-> r.printed]
    /\ UNCHANGED validator

NextMarket ==
    \/ CreatePlugin
    \/ AddSkillToPlugin

InitMarket == Start("marketplace", EmptySession)

SpecMarket == InitMarket /\ [][NextMarket]_vars

----------------------------------------------------------------------------
(* Properties.                                                             *)

Range(seq) == {seq[i] : i \in 1..Len(seq)}

Finished == pc = "done" /\ target = "dir"

Found(c) == produced[c].found

Present(c) == files[c].kind # "absent"

\* the run of validate() on a session, check by check: a check is reached
\* unless one before it raised
Order == <<"metadata", "environment", "locale", "typescript", "diagnostics">>

CheckOf(c, session) ==
    CASE c = "metadata" -> check_metadata(session.metadata)
      [] c = "environment" -> check_environment(session.environment)
      [] c = "locale" -> check_locale(session.locale)
      [] c = "typescript" -> check_typescript_issues(session.typescript)
      [] c = "diagnostics" -> check_diagnostics(session.diagnostics)

PositionOf(c) == CHOOSE i \in 1..Len(Order) : Order[i] = c

ProducedIn(session, c) ==
    IF \E i \in 1..(PositionOf(c) - 1) : CheckOf(Order[i], session).raised
    THEN NotRun
    ELSE [ran |-> TRUE, found |-> CheckOf(c, session)]

\* the session without artifact a
Without(session, a) == [session EXCEPT ![a] = EmptySession[a]]

\* C1: when the session directory exists, main() exits with 0 if validate()
\* returned a report whose issue bucket is empty and with 1 otherwise; the
\* warnings and the info findings do not enter into it.
C1_ExitCodeIffNoIssues ==
    Finished =>
        /\ exitCode \in {0, 1}
        /\ exitCode = 0 <=> (result.returned /\ result.issues = <<>>)

\* a run that exits 0 although it reported warnings and info findings
C1_Witness ==
    /\ Finished
    /\ exitCode = 0
    /\ result.warnings # <<>>
    /\ result.info # <<>>

\* C2: in every session without the transcript, whatever the other artifacts
\* hold, the issue bucket ends with exactly one finding about the missing
\* transcript, no transcript classifier finding is produced, and the exit
\* code is 1.
C2_MissingTranscriptReported ==
    (Finished /\ ~Present("typescript")) =>
        /\ Count(issues, MissingTranscriptMsg) = 1
        /\ Found("typescript").info = <<>>
        /\ Found("typescript").warnings = <<>>
        /\ exitCode = 1

\* C3: once the session directory is confirmed, validate() runs all five
\* checks to completion and returns a report, whatever the artifacts hold.
C3_AllChecksComplete ==
    Finished =>
        /\ result.returned
        /\ \A c \in Checks : produced[c].ran /\ ~Found(c).raised

\* C4: a structural error (metadata that is not valid JSON, a transcript whose
\* reading raises) is recorded as an issue, never as a warning or an info
\* finding, and the check returns so that the next one runs.
C4_StructuralErrorsAreIssues ==
    \A c \in {"metadata", "typescript"} :
        (/\ produced[c].ran
         /\ files[c].kind = (IF c = "metadata" THEN "invalid_json" ELSE "unreadable")) =>
            /\ Len(Found(c).issues) = 1
            /\ Found(c).warnings = <<>>
            /\ Found(c).info = <<>>
            /\ ~Found(c).raised

\* C5: taking one artifact away leaves what the checks of the other four
\* artifacts produce unchanged, and the check of the missing artifact adds at
\* most one finding.
C5_ArtifactsIndependent ==
    Finished =>
        \A a \in Checks :
            /\ \A c \in Checks \ {a} : produced[c] = ProducedIn(Without(files, a), c)
            /\ LET f == ProducedIn(Without(files, a), a).found
               IN  Len(f.issues) + Len(f.warnings) + Len(f.info) <= 1

----------------------------------------------------------------------------
(* The environment and locale dumps as the specification reads them: one   *)
(* NAME=VALUE entry per line.                                              *)

StartsWith(s, p) == Len(s) >= Len(p) /\ SubSeq(s, 1, Len(p)) = p

\* the values of the entries of text c that set the variable name
EntryValues(c, name) ==
    LET lines == Split(c, "\n")
    IN  {SubSeq(lines[i], Len(name) + 2, Len(lines[i])) :
            i \in {j \in 1..Len(lines) : StartsWith(lines[j], name \o "=")}}

HasEntry(c, name) == EntryValues(c, name) # {}

\* the variable is set, and to a value that contains the marker
EntryHas(c, name, marker) ==
    HasEntry(c, name) /\ \A v \in EntryValues(c, name) : Contains(v, marker)

EnvChecked == produced["environment"].ran /\ files.environment.kind = "text"

\* the warnings that recommend a 256color variant
TermWarnings(w) ==
    {i \in 1..Len(w) : EndsWith(w[i], " - consider using 256color variant")}

\* C7: check_environment adds the issue "LANG not set to UTF-8 locale" if and
\* only if there is no LANG entry or the LANG entry's own value lacks "UTF-8".
C7_LangRule ==
    EnvChecked =>
        (LangMsg \in Range(Found("environment").issues)
            <=> ~EntryHas(files.environment.text, "LANG", "UTF-8"))

\* C8: the TERM rule looks at the variable named TERM only: no TERM entry gives
\* the issue "TERM variable not set"; a TERM entry whose value lacks
\* "256color" gives exactly one warning and no TERM issue; a value that
\* contains "256color" gives neither.
C8_TermRule ==
    EnvChecked =>
        LET c == files.environment.text
            f == Found("environment")
        IN  /\ ~HasEntry(c, "TERM") => TermUnsetMsg \in Range(f.issues)
            /\ (HasEntry(c, "TERM") /\ ~EntryHas(c, "TERM", "256color")) =>
                   /\ Cardinality(TermWarnings(f.warnings)) = 1
                   /\ TermUnsetMsg \notin Range(f.issues)
            /\ EntryHas(c, "TERM", "256color") =>
                   /\ TermWarnings(f.warnings) = {}
                   /\ TermUnsetMsg \notin Range(f.issues)

\* C9: when LANG and LC_ALL both hold "UTF-8" and TERM holds "256color",
\* check_environment adds no issue and no warning, whatever the other lines
\* and whatever the order of the lines.
C9_GoodEnvironmentIsClean ==
    (/\ EnvChecked
     /\ EntryHas(files.environment.text, "LANG", "UTF-8")
     /\ EntryHas(files.environment.text, "LC_ALL", "UTF-8")
     /\ EntryHas(files.environment.text, "TERM", "256color"))
    => Found("environment").issues = <<>> /\ Found("environment").warnings = <<>>

LocaleChecked == produced["locale"].ran /\ files.locale.kind = "text"

RECURSIVE ReportableNames(_)
\* the names, in file order, of the VAR=VALUE lines whose value is not empty
\* and lacks "UTF-8"
ReportableNames(lines) ==
    IF lines = <<>> THEN <<>>
    ELSE LET line == Head(lines)
             eq == Find(line, "=", 1)
             value == SubSeq(line, eq + 1, Len(line))
         IN  (IF eq # 0 /\ value # "" /\ ~Contains(value, "UTF-8")
              THEN <<SubSeq(line, 1, eq - 1)>> ELSE <<>>)
             \o ReportableNames(Tail(lines))

\* C10: check_locale adds at most one warning, and adds it if and only if some
\* VAR=VALUE line has a non-empty value lacking "UTF-8"; the warning lists
\* the names of exactly those lines, in file order.
C10_LocaleWarning ==
    LocaleChecked =>
        LET names == ReportableNames(Split(files.locale.text, "\n"))
            f == Found("locale")
        IN  /\ f.issues = <<>> /\ f.info = <<>>
            /\ f.warnings = IF names = <<>> THEN <<>> ELSE <<LocaleMsg(names)>>

----------------------------------------------------------------------------
(* The transcript: decoding and the classifiers.                           *)

TranscriptChecked == produced["typescript"].ran /\ files.typescript.kind = "bytes"

\* the well-formed UTF-8 byte sequences (Unicode, table 3-7), each byte by its range
WellFormedSequences ==
    {<< <<0, 127>> >>,
     << <<194, 223>>, <<128, 191>> >>,
     << <<224, 224>>, <<160, 191>>, <<128, 191>> >>,
     << <<225, 236>>, <<128, 191>>, <<128, 191>> >>,
     << <<237, 237>>, <<128, 159>>, <<128, 191>> >>,
     << <<238, 239>>, <<128, 191>>, <<128, 191>> >>,
     << <<240, 240>>, <<144, 191>>, <<128, 191>>, <<128, 191>> >>,
     << <<241, 243>>, <<128, 191>>, <<128, 191>>, <<128, 191>> >>,
     << <<244, 244>>, <<128, 143>>, <<128, 191>>, <<128, 191>> >>}

\* whether row of the table matches bs at position i
MatchesAt(bs, i, row) ==
    /\ i + Len(row) - 1 <= Len(bs)
    /\ \A k \in 1..Len(row) : row[k][1] <= bs[i + k - 1] /\ bs[i + k - 1] <= row[k][2]

RECURSIVE FirstInvalidFrom(_, _)
\* the 0-based offset of the first byte from i on that starts no well-formed
\* sequence, -1 when there is none
FirstInvalidFrom(bs, i) ==
    IF i > Len(bs) THEN -1
    ELSE LET rows == {row \in WellFormedSequences : MatchesAt(bs, i, row)}
         IN  IF rows = {} THEN i - 1
             ELSE FirstInvalidFrom(bs, i + Len(CHOOSE row \in rows : TRUE))

FirstInvalidOffset(bs) == FirstInvalidFrom(bs, 1)

\* C11: a transcript that is valid UTF-8 and holds no U+FFFD gets no encoding
\* finding; a transcript with an invalid sequence gets exactly one decode-error
\* issue citing the offset of the first invalid sequence, followed by exactly one
\* replacement-count issue citing the number of U+FFFD in the lossy text, and
\* the classifiers still run on that text
C11_DecodeFindings ==
    TranscriptChecked =>
        LET bs == files.typescript.bytes
            offset == FirstInvalidOffset(bs)
            found == Found("typescript")
        IN  /\ (offset = -1 /\ ~Contains(bs, <<239, 191, 189>>)) => found.issues = <<>>
            /\ offset # -1 =>
                  /\ found.issues =
                        <<DecodeErrorMsg(offset),
                          ReplacementMsg(Count(DecodeReplace(bs), REPLACEMENT))>>
                  /\ Count(DecodeReplace(bs), REPLACEMENT) >= 1
                  /\ (Contains(bs, AltScreenEnter) => AltScreenMsg \in Range(found.info))
                  /\ (Contains(bs, <<230, 151, 165>>) =>
                        \E n \in 1..Len(bs) : CJKMsg(n) \in Range(found.info))
            /\ ~found.raised /\ found.warnings = <<>>

\* an invalid byte after an alternate-screen sequence and a character
C11_Witness ==
    /\ Finished /\ TranscriptChecked
    /\ FirstInvalidOffset(files.typescript.bytes) > 8
    /\ Len(Found("typescript").issues) = 2
    /\ AltScreenMsg \in Range(info)

\* the decoded transcript
TranscriptText == DecodeReplace(files.typescript.bytes)

\* the characters of the other classes: box-drawing glyphs, CJK ideographs,
\* Hiragana, Katakana, Hangul and the replacement character
OtherClass(cp) == IsBox(cp) \/ IsCJK(cp) \/ cp = REPLACEMENT

EmojiFindings(found) ==
    {i \in 1..Len(found.info) : \E n \in 1..Len(TranscriptText) : found.info[i] = EmojiMsg(n)}

\* C12: the emoji classifier adds one info finding exactly when the text holds a
\* character of the emoji ranges, citing the number of maximal runs of such
\* characters; characters of the other classes are not counted as emoji, so a
\* transcript holding only such characters gets no emoji finding
C12_EmojiOnlyForEmoji ==
    TranscriptChecked =>
        LET text == TranscriptText
            found == Found("typescript")
            emoji == {i \in 1..Len(text) : IsEmoji(text[i]) /\ ~OtherClass(text[i])}
        IN  IF emoji = {} THEN EmojiFindings(found) = {}
            ELSE /\ Cardinality(EmojiFindings(found)) = 1
                 /\ EmojiMsg(Runs(emoji)) \in Range(found.info)

\* the positions of bs at which seq occurs
Occurrences(bs, seq) ==
    {i \in 1..(Len(bs) - Len(seq) + 1) : \A k \in 1..Len(seq) : bs[i + k - 1] = seq[k]}

\* where ESC[?1049h or ESC[?1049l occurs in the transcript
AltScreenOccurrences ==
    Occurrences(files.typescript.bytes, <<27, 91, 63, 49, 48, 52, 57, 104>>)
    \cup Occurrences(files.typescript.bytes, <<27, 91, 63, 49, 48, 52, 57, 108>>)

\* C13: the alternate-screen rule adds exactly one info finding when the
\* transcript holds ESC[?1049h or ESC[?1049l, however often, and none otherwise
C13_AltScreenOnce ==
    TranscriptChecked =>
        Cardinality({i \in 1..Len(Found("typescript").info) :
                        Found("typescript").info[i] = AltScreenMsg})
            = (IF AltScreenOccurrences # {} THEN 1 ELSE 0)

\* three occurrences, one finding
C13_Witness ==
    /\ Finished /\ TranscriptChecked
    /\ Cardinality(AltScreenOccurrences) = 3
    /\ Cardinality({i \in 1..Len(info) : info[i] = AltScreenMsg}) = 1

----------------------------------------------------------------------------
(* The diagnostics report.                                                 *)

DiagChecked == produced["diagnostics"].ran /\ files.diagnostics.kind = "text"

\* the color counts the lines of the report state
ReportedColors ==
    {d.colors : d \in {e \in DiagLineSamples :
                          /\ e.colors # NoCount
                          /\ e.line \in Range(Split(files.diagnostics.text, "\n"))}}

\* C14: a report that states a color count below 256 gets exactly one warning,
\* citing that count; a report that states a count of 256 or more, or no count,
\* gets no color warning; there is never more than one color warning
C14_ColorWarning ==
    DiagChecked =>
        LET w == Found("diagnostics").warnings
        IN  /\ Len(w) <= 1
            /\ w # <<>> => \E n \in ReportedColors : n < 256 /\ w = <<ColorMsg(n)>>
            /\ (ReportedColors # {} /\ \A n \in ReportedColors : n < 256) => w # <<>>

----------------------------------------------------------------------------
(* The buckets and the report.                                             *)

IsPrefix(a, b) == Len(a) <= Len(b) /\ SubSeq(b, 1, Len(a)) = a

\* C15: every step of validate() and print_report() leaves each bucket as it
\* was or appends to its end: a check adds exactly what it found, each finding
\* to its own bucket and to no other, nothing is removed, reordered or moved,
\* and a step that runs no check, print_report() among them, leaves the three
\* buckets unchanged
C15_BucketsAppendOnly ==
    [][/\ IsPrefix(issues, issues') /\ IsPrefix(warnings, warnings') /\ IsPrefix(info, info')
       /\ \A c \in Checks :
             (~produced[c].ran /\ produced'[c].ran) =>
                 /\ issues' = issues \o produced'[c].found.issues
                 /\ warnings' = warnings \o produced'[c].found.warnings
                 /\ info' = info \o produced'[c].found.info
       /\ produced' = produced => <<issues', warnings', info'>> = <<issues, warnings, info>>
       /\ Range(issues') \cap Range(warnings') = {}
       /\ Range(issues') \cap Range(info') = {}
       /\ Range(warnings') \cap Range(info') = {}]_vars

\* a finished run whose report was printed, with several findings in each bucket
C15_Witness ==
    /\ Finished /\ result.returned
    /\ Len(issues) >= 2 /\ Len(warnings) >= 2 /\ Len(info) >= 2
    /\ "Issues:" \in Range(stdout)

\* a printed line that renders a finding: three spaces, the mark, two spaces
IsFindingLine(line) ==
    Len(line) >= 6 /\ SubSeq(line, 1, 3) = "   " /\ SubSeq(line, 5, 6) = "  "

\* the findings rendered so far, each as <<mark, text>>, in the order printed
Rendered ==
    LET lines == SelectSeq(stdout, IsFindingLine)
    IN  [i \in 1..Len(lines) |-> <<SubSeq(lines[i], 4, 4), SubSeq(lines[i], 7, Len(lines[i]))>>]

\* what the checks found for one bucket, in the order metadata, environment,
\* locale, transcript, diagnostics, each marked
InCheckOrder(mark, bucket) ==
    LET all == Found("metadata")[bucket] \o Found("environment")[bucket]
               \o Found("locale")[bucket] \o Found("typescript")[bucket]
               \o Found("diagnostics")[bucket]
    IN  [i \in 1..Len(all) |-> <<mark, all[i]>>]

\* C17: print_report() renders the information, then the warnings, then the
\* issues, each bucket in the order in which the checks metadata, environment,
\* locale, transcript, diagnostics appended to it; no finding is rendered
\* before all five checks have completed
C17_RenderOrder ==
    Rendered # <<>> =>
        /\ \A c \in Checks : produced[c].ran /\ ~Found(c).raised
        /\ Rendered = InCheckOrder("i", "info") \o InCheckOrder("!", "warnings")
                       \o InCheckOrder("x", "issues")

\* a printed report with all three sections, the information coming from
\* several checks
C17_Witness ==
    /\ Finished
    /\ Rendered # <<>>
    /\ \E i, j, k \in 1..Len(Rendered) :
          i < j /\ j < k /\ Rendered[i][1] = "i" /\ Rendered[j][1] = "!" /\ Rendered[k][1] = "x"
    /\ Found("metadata").info # <<>> /\ Found("typescript").info # <<>>
    /\ Found("environment").issues # <<>> /\ Found("diagnostics").issues # <<>>

\* C16: validating an unchanged session again gives the same findings: the
\* report a later validate() returns equals, bucket by bucket, the report the
\* validate() before it returned, and is not the accumulation of both runs
C16_SecondReportIsTheSame ==
    [][(pc = "return" /\ result.returned) => result' = result]_vars

----------------------------------------------------------------------------
(* The marketplace.                                                        *)

\* no plugin lists a skill path twice
NoDuplicateSkills(data) ==
    \A i \in 1..Len(data.plugins) :
        \A j, k \in 1..Len(data.plugins[i].skills) :
            j # k => data.plugins[i].skills[j] # data.plugins[i].skills[k]

\* C18: after every call of create_plugin or add_skill_to_plugin on a
\* marketplace that started with no plugins, no plugin's skills list holds the
\* same normalized path twice, and a call that returned False left the
\* marketplace data as it was
C18_NoDuplicateSkills ==
    [][/\ NoDuplicateSkills(marketplace_data')
       /\ (outcome'.called /\ ~outcome'.value) => marketplace_data' = marketplace_data]_vars

====
